---------------------------- MODULE Spec2Model ----------------------------
(***************************************************************************)
(* A model of align_data/postprocess/format_for_fine_tuning.py.            *)
(*                                                                         *)
(* A Python str is a sequence of one-character strings.  A JSON value is   *)
(* a tagged record [tag, v]; a dict is a sequence of [k, v] pairs in       *)
(* insertion order, which is the order entry.items() iterates in.          *)
(* A call that may raise returns [err, ...] where err is "" on success     *)
(* and the name of the Python exception class otherwise.                   *)
(***************************************************************************)
EXTENDS Integers, Sequences, FiniteSets, TLC

----------------------------------------------------------------------------
(* Bounds of the model *)

\* Longest text / score string generated for the formatter specification.
MaxLen == 6
\* Most comments in a record generated for the expansion specification.
MaxComments == 2
\* Most lines the readers return in one run of the pipeline (all sources).
MaxReads == 3
\* Most input paths given on the command line.
MaxSources == 2

----------------------------------------------------------------------------
(* Python values *)

StrV(s) == [tag |-> "str", v |-> s]
IntV(n) == [tag |-> "int", v |-> n]
NullV == [tag |-> "null", v |-> 0]
ListV(xs) == [tag |-> "list", v |-> xs]
DictV(e) == [tag |-> "dict", v |-> e]

KV(key, value) == [k |-> key, v |-> value]

\* U+2212 MINUS SIGN, one character.
MinusSign == "U+2212"

Digits == <<"0", "1", "2", "3", "4", "5", "6", "7", "8", "9">>

Keys(entry) == {entry[n].k : n \in 1..Len(entry)}

\* The element of a one-element set.  Only({ e(x) : x \in {d} }) is e with x
\* standing for the value of d, computed once.
Only(set) == CHOOSE x \in set : TRUE

\* entry[key] of a dict that has the key.
Get(entry, key) == entry[CHOOSE n \in 1..Len(entry) : entry[n].k = key].v

\* entry[key] = value for a key the dict already has: the key keeps its place.
Put(entry, key, value) ==
    [n \in 1..Len(entry) |-> IF entry[n].k = key THEN KV(key, value) ELSE entry[n]]

\* defaultdict(str, entry)[key]: the value, or str() == "" for a missing key.
Lookup(entry, key) ==
    IF key \in Keys(entry) THEN Get(entry, key) ELSE StrV(<<>>)

\* format(value, ""), what str.format_map does with a field that has no format
\* spec.  Fields without a formatter hold strings, small naturals or null in
\* the records this model generates; there is no case for a list or a dict.
str(value) ==
    CASE value.tag = "str" -> value.v
      [] value.tag = "int" -> <<Digits[value.v + 1]>>
      [] value.tag = "null" -> <<"N", "o", "n", "e">>

\* s.replace(old, new, 1): the first occurrence only.
replace_first(s, old, new) ==
    IF \E p \in 1..(Len(s) - Len(old) + 1) :
           SubSeq(s, p, p + Len(old) - 1) = old
    THEN Only({ SubSeq(s, 1, p - 1) \o new \o SubSeq(s, p + Len(old), Len(s)) :
                p \in {CHOOSE p \in 1..(Len(s) - Len(old) + 1) :
                          /\ SubSeq(s, p, p + Len(old) - 1) = old
                          /\ \A q \in 1..(p - 1) :
                                SubSeq(s, q, q + Len(old) - 1) # old} })
    ELSE s

RECURSIVE replace(_, _, _)
\* s.replace(old, new): every non-overlapping occurrence, leftmost first.
replace(s, old, new) ==
    IF Len(s) < Len(old) THEN s
    ELSE IF SubSeq(s, 1, Len(old)) = old
         THEN new \o replace(SubSeq(s, Len(old) + 1, Len(s)), old, new)
         ELSE <<s[1]>> \o replace(Tail(s), old, new)

RECURSIVE join(_, _)
\* sep.join(items) for items that are all str.
join(sep, items) ==
    IF Len(items) = 0 THEN <<>>
    ELSE IF Len(items) = 1 THEN items[1].v
    ELSE items[1].v \o sep \o join(sep, Tail(items))

----------------------------------------------------------------------------
(* Templates: a format string as str.format parses it, literal text and    *)
(* replacement fields in turn.                                             *)

Lit(chars) == [kind |-> "lit", v |-> chars]
Field(name) == [kind |-> "field", v |-> name]

PROMPT_TEMPLATE ==
    << Lit(<<"\n">>),
       Field("title"),
       Lit(<<"\n", "\n", "b", "y", " ">>),
       Field("authors"),
       Lit(<<"\n", "T", "a", "g", "s", ":", " ">>),
       Field("tags"),
       Lit(<<"\n", "V", "o", "t", "e", "s", ":", " ">>),
       Field("votes"),
       Lit(<<"\n", "K", "a", "r", "m", "a", ":", " ">>),
       Field("score"),
       Lit(<<"\n", "\n">>),
       Field("text"),
       Lit(<<"\n", "\n", "%", "%", "%", "\n", "\n">>) >>

COMPLETION_TEMPLATE ==
    << Lit(<<" ">>),
       Field("comments"),
       Lit(<<"\n", "\n", "%", "E", "N", "D", "%", "\n", "\n">>) >>

COMMENT_TEMPLATE ==
    << Lit(<<"C", "o", "m", "m", "e", "n", "t", " ", "b", "y", " ">>),
       Field("authors"),
       Lit(<<"\n", "V", "o", "t", "e", "s", ":", " ">>),
       Field("votes"),
       Lit(<<"\n", "K", "a", "r", "m", "a", ":", " ">>),
       Field("score"),
       Lit(<<"\n", "\n">>),
       Field("text") >>

\* A formatter that is a template string.
TemplateRule(template) ==
    [callable |-> FALSE, template |-> template, old |-> <<>>, new |-> <<>>]
\* A formatter that is lambda s: s.replace(old, new).
ReplaceRule(old, new) ==
    [callable |-> TRUE, template |-> <<>>, old |-> old, new |-> new]

Separator == <<"%", "%", "%">>
Dashes == <<"-", "-", "-">>

\* The formatters with the rule for "text" left out.
FIELD_FORMATTERS_text_unescaped ==
    << KV("comments", TemplateRule(COMMENT_TEMPLATE)),
       KV("score", ReplaceRule(<<MinusSign>>, <<"-">>)) >>

FIELD_FORMATTERS ==
    << KV("comments", TemplateRule(COMMENT_TEMPLATE)),
       KV("score", ReplaceRule(<<MinusSign>>, <<"-">>)),
       KV("text", ReplaceRule(Separator, Dashes)) >>

----------------------------------------------------------------------------
(* format_fields and format_entry *)

\* A plain dict in place of the defaultdict: a missing key raises.
getitem_plain_dict(entry, key) ==
    IF key \in Keys(entry) THEN [err |-> "", val |-> Get(entry, key)]
    ELSE [err |-> "KeyError", val |-> StrV(<<>>)]

\* entry_with_default[key], entry_with_default a defaultdict(str): [err, val].
getitem(entry, key) == [err |-> "", val |-> Lookup(entry, key)]

RECURSIVE format_map(_, _)
\* template.format_map(entry_with_default), fields looked up left to right:
\* [err, val].
format_map(template, entry) ==
    IF Len(template) = 0 THEN [err |-> "", val |-> <<>>]
    ELSE IF template[1].kind = "lit"
    THEN Only({ [err |-> rest.err, val |-> template[1].v \o rest.val] :
                rest \in {format_map(Tail(template), entry)} })
    ELSE Only({ IF g.err # "" THEN [err |-> g.err, val |-> <<>>]
                ELSE Only({ [err |-> rest.err, val |-> str(g.val) \o rest.val] :
                            rest \in {format_map(Tail(template), entry)} }) :
                g \in {getitem(entry, template[1].v)} })

\* The lambda of a callable formatter applied to a value: only a str has
\* .replace, anything else raises AttributeError.
call_formatter(rule, value) ==
    IF value.tag = "str"
    THEN [err |-> "", val |-> replace(value.v, rule.old, rule.new)]
    ELSE [err |-> "AttributeError", val |-> <<>>]

RECURSIVE format_entry(_, _)
RECURSIVE format_fields_from(_, _, _, _)
RECURSIVE format_elems(_, _, _)

\* format_this_field(value): the callable, or
\* functools.partial(format_entry, template=formatters[key]).
format_this_field(rule, value) ==
    IF rule.callable THEN call_formatter(rule, value)
    ELSE Only({ [err |-> r.err, val |-> r.val] :
                r \in {format_entry(value, rule.template)} })

\* The loop over a list value: value[i] = format_this_field(elem) for every
\* elem that is a mapping, from index n on.  [err, items].
format_elems(rule, items, n) ==
    IF n > Len(items) THEN [err |-> "", items |-> items]
    ELSE IF items[n].tag = "dict"
         THEN Only({ IF r.err # "" THEN [err |-> r.err, items |-> items]
                     ELSE Only({ format_elems(rule, changed, n + 1) :
                                 changed \in {[items EXCEPT ![n] = StrV(r.val)]} }) :
                     r \in {format_this_field(rule, items[n])} })
         ELSE format_elems(rule, items, n + 1)

\* "\n\n\n".join(value): TypeError unless every item is a str.
join_elems(items) ==
    IF \E n \in 1..Len(items) : items[n].tag # "str"
    THEN [err |-> "TypeError", val |-> <<>>]
    ELSE [err |-> "", val |-> join(<<"\n", "\n", "\n">>, items)]

\* One pass of the loop body of format_fields for a key that has a formatter:
\* [err, val, items], val the new field value and items the list object after
\* the loop (a list is changed in place, so whoever else holds it sees items).
format_value(rule, value) ==
    IF value.tag = "list"
    THEN Only({ IF r.err # "" THEN [err |-> r.err, val |-> <<>>, items |-> r.items]
                ELSE Only({ [err |-> j.err, val |-> j.val, items |-> r.items] :
                            j \in {join_elems(r.items)} }) :
                r \in {format_elems(rule, value.v, 1)} })
    ELSE Only({ [err |-> r.err, val |-> r.val, items |-> <<>>] :
                r \in {format_this_field(rule, value)} })

\* format_fields(entry, formatters) from the n-th item of entry.items() on.
\* entry is the mapping, changed in place; shallow is a shallow copy of it
\* taken before the call, which shares its list objects.  [err, entry, shallow].
format_fields_from(entry, shallow, formatters, n) ==
    IF n > Len(entry) THEN [err |-> "", entry |-> entry, shallow |-> shallow]
    ELSE IF entry[n].k \notin Keys(formatters)
    THEN format_fields_from(entry, shallow, formatters, n + 1)
    ELSE Only({ IF r.err # ""
                THEN [err |-> r.err, entry |-> entry,
                      shallow |-> IF entry[n].v.tag = "list"
                                  THEN Put(shallow, entry[n].k, ListV(r.items))
                                  ELSE shallow]
                ELSE Only({ format_fields_from(changed, seen, formatters, n + 1) :
                            changed \in {Put(entry, entry[n].k, StrV(r.val))},
                            seen \in {IF entry[n].v.tag = "list"
                                      THEN Put(shallow, entry[n].k, ListV(r.items))
                                      ELSE shallow} }) :
                r \in {format_value(Get(formatters, entry[n].k), entry[n].v)} })

format_fields(entry, formatters) ==
    format_fields_from(entry, entry, formatters, 1)

\* collections.defaultdict(str, value): a mapping is copied; a str is read as
\* a sequence of key/value pairs, so "" gives the empty dict and any other str
\* raises ValueError (its items have length 1); an int or None is not
\* iterable.  A list never gets here: format_fields sends it to the loop.
defaultdict(value) ==
    CASE value.tag = "dict" -> [err |-> "", entry |-> value.v]
      [] value.tag = "str" /\ value.v = <<>> -> [err |-> "", entry |-> <<>>]
      [] value.tag = "str" /\ value.v # <<>> ->
            [err |-> "ValueError", entry |-> <<>>]
      [] value.tag \in {"int", "null"} -> [err |-> "TypeError", entry |-> <<>>]

\* format_entry(entry, template): [err, val, arg], val the rendered string and
\* arg the caller's mapping after the call (format_fields works on the copy,
\* but the copy shares the caller's lists).
format_entry(value, template) ==
    Only({ IF d.err # "" THEN [err |-> d.err, val |-> <<>>, arg |-> <<>>]
           ELSE Only({ IF f.err # ""
                       THEN [err |-> f.err, val |-> <<>>, arg |-> f.shallow]
                       ELSE Only({ [err |-> m.err, val |-> m.val,
                                    arg |-> f.shallow] :
                                   m \in {format_map(template, f.entry)} }) :
                       f \in {format_fields(d.entry, FIELD_FORMATTERS)} }) :
           d \in {defaultdict(value)} })

format_prompt(entry) == format_entry(DictV(entry), PROMPT_TEMPLATE)

format_completion(entry) == format_entry(DictV(entry), COMPLETION_TEMPLATE)

----------------------------------------------------------------------------
(* write_entry, one comment at a time *)

\* entry_with_one_comment = dict(input_entry) with the comments of another
\* record left in: the copy without line 211.
all_comments_kept(input_entry, comment) == input_entry

\* entry_with_one_comment = dict(input_entry);
\* entry_with_one_comment["comments"] = [comment]
entry_with_one_comment(input_entry, comment) ==
    Put(input_entry, "comments", ListV(<<comment>>))

\* The two renderings of the try block, on the same mapping one after the
\* other: [err, prompt, completion].
format_output(entry) ==
    Only({ IF p.err # ""
           THEN [err |-> p.err, prompt |-> <<>>, completion |-> <<>>]
           ELSE Only({ [err |-> c.err, prompt |-> p.val, completion |-> c.val] :
                       c \in {format_completion(p.arg)} }) :
           p \in {format_prompt(entry)} })

\* except (AttributeError, KeyError, ValueError)
Caught == {"AttributeError", "KeyError", "ValueError"}

\* dict.get(key, default)
get(entry, key, default) ==
    IF key \in Keys(entry) THEN Get(entry, key) ELSE default

\* input_entry.get("comments", [])
comments_of(input_entry) == get(input_entry, "comments", ListV(<<>>))

\* enumerate(...) of a value: a list can be iterated, None and an int cannot.
\* (The records of this model hold a list, null or nothing under "comments".)
Iterable(value) == value.tag = "list"

\* What the loop body does with the comment at comment_index (0-based).
outcome(input_entry, index) ==
    format_output(entry_with_one_comment(input_entry,
                                         comments_of(input_entry).v[index + 1]))

----------------------------------------------------------------------------
(* State *)

VARIABLES
    pc,                  \* where the program is
    raised,              \* the exception that is propagating, "" when none
    sources,             \* the --sources argument: [given, names]
    n_inputs,            \* len(input_paths)
    i,                   \* index of the current input path
    line_number,         \* itertools.count(1) of the current input
    input_parse_errors,  \* malformed lines of the current input
    lines_read,          \* entries read in the run
    lines_written,       \* entries written in the run
    consumed,            \* lines the readers have returned so far
    writer,              \* the output file: "unopened", "open" or "closed"
    input_file,          \* per input path: "unopened", "open" or "closed"
    drained,             \* the input paths whose reader has reached EOF
    written,             \* what writer.write() has put in the output file
    input_entry,         \* the entry write_entry is called with
    comment_index,       \* enumerate() index of write_entry's loop
    entry_lines,         \* lines_written local to write_entry
    arg,                 \* format_fields: the mapping as first passed
    entry,               \* format_fields: the mapping, changed in place
    once,                \* format_fields: the mapping after the first call
    template,            \* format_entry: the template rendered
    rendered             \* format_entry: its result as [err, val]

pipeline_vars ==
    <<sources, n_inputs, i, line_number, input_parse_errors, lines_read,
      lines_written, consumed, writer, input_file, drained, written,
      input_entry, comment_index, entry_lines>>

formatter_vars == <<arg, entry, once, template, rendered>>

vars == <<pc, raised, pipeline_vars, formatter_vars>>

----------------------------------------------------------------------------
(* Inputs *)

S(chars) == StrV(chars)

lesswrong == <<"l", "e", "s", "s", "w", "r", "o", "n", "g">>
LessWrong == <<"L", "e", "s", "s", "W", "r", "o", "n", "g">>
arxiv == <<"a", "r", "x", "i", "v">>

\* A well-formed comment, with a minus sign in its score and the divider in
\* its text.
good ==
    DictV(<< KV("authors", S(<<"Y">>)), KV("votes", IntV(3)),
             KV("score", S(<<MinusSign, "4">>)),
             KV("text", S(<<"n", "%", "%", "%">>)) >>)

\* A second well-formed comment, by another author.
good2 == DictV(<< KV("authors", S(<<"Z">>)), KV("text", S(<<"m">>)) >>)

reply == DictV(<< KV("text", S(<<"r">>)) >>)

\* The shapes a comment takes in the expansion specification.
CommentShapes ==
    { good,
      good2,
      DictV(<<>>),
      S(<<"a", "b">>),
      IntV(5),
      NullV,
      DictV(<< KV("score", IntV(4)) >>),
      DictV(<< KV("text", NullV) >>),
      DictV(<< KV("authors", S(<<"W">>)), KV("comments", S(<<"r">>)) >>),
      DictV(<< KV("authors", S(<<"W">>)), KV("comments", S(<<>>)) >>),
      DictV(<< KV("authors", S(<<"W">>)), KV("comments", ListV(<<reply>>)) >>),
      DictV(<< KV("authors", S(<<"W">>)), KV("comments", IntV(5)) >>),
      DictV(<< KV("authors", S(<<"W">>)), KV("comments", ListV(<<IntV(1)>>)) >>),
      DictV(<< KV("score", IntV(4)), KV("comments", IntV(5)) >>),
      DictV(<< KV("comments", IntV(5)), KV("score", IntV(4)) >>) }

SeqsUpTo(set, n) == UNION {[1..m -> set] : m \in 0..n}

\* The article fields of a record, with or without a "source".
Article(with_source, source) ==
    (IF with_source THEN << KV("source", S(source)) >> ELSE <<>>)
    \o << KV("title", S(<<"T">>)), KV("authors", S(<<"X">>)),
          KV("votes", IntV(1)), KV("text", S(<<"x", "%", "%", "%">>)) >>

\* Records for the expansion specification: no "comments", null, or a list.
ExpandRecords ==
    { Article(TRUE, lesswrong) }
    \cup { Article(TRUE, lesswrong) \o << KV("comments", NullV) >> }
    \cup { a \o << KV("comments", ListV(cs)) >> :
             a \in { Article(TRUE, lesswrong),
                     <<KV("score", IntV(2))>> \o Article(TRUE, lesswrong) },
             cs \in SeqsUpTo(CommentShapes, MaxComments) }

\* Records the pipeline reads.
PipelineRecords ==
    { Article(TRUE, lesswrong)
          \o << KV("comments",
                   ListV(<< good, DictV(<< KV("score", IntV(4)) >>), good2 >>)) >>,
      Article(TRUE, LessWrong) \o << KV("comments", ListV(<<good>>)) >>,
      Article(FALSE, <<>>) \o << KV("comments", ListV(<<good2>>)) >>,
      Article(TRUE, lesswrong)
          \o << KV("comments", ListV(<< good, IntV(5) >>)) >>,
      Article(TRUE, arxiv),
      Article(TRUE, arxiv) \o << KV("comments", NullV) >> }

\* The --sources argument: absent (None), or a list of names.
NoSources == [given |-> FALSE, names |-> {}]
SourceFilters ==
    { NoSources,
      [given |-> TRUE, names |-> {S(lesswrong)}],
      [given |-> TRUE, names |-> {S(LessWrong), S(arxiv)}] }


\* Mappings for the formatter specification: every text over three
\* characters up to MaxLen (or a number, or none), with or without a title,
\* a score and comments.
Texts == { S(t) : t \in SeqsUpTo({"%", "-", "a"}, MaxLen) }

Opt(present, key, value) == IF present THEN << KV(key, value) >> ELSE <<>>

FormatEntries ==
    { Opt(ht, "title", S(<<"T">>)) \o Opt(sc # NullV, "score", sc)
        \o Opt(tx # NullV, "text", tx)
        \o Opt(cm # "absent", "comments",
               IF cm = "empty" THEN ListV(<<>>)
               ELSE ListV(<< DictV(Opt(tx # NullV, "text", tx)) >>)) :
        ht \in BOOLEAN,
        sc \in {NullV, S(<<MinusSign, "1">>), IntV(2)},
        tx \in Texts \cup {NullV, IntV(7)},
        cm \in {"absent", "empty", "one"} }

Templates == {PROMPT_TEMPLATE, COMPLETION_TEMPLATE, COMMENT_TEMPLATE}

----------------------------------------------------------------------------
(* The formatter on its own: format_fields applied once and again, and     *)
(* format_entry applied to the same mapping.                               *)

PipelineIdle ==
    /\ sources = NoSources
    /\ n_inputs = 0
    /\ i = 0
    /\ line_number = 0
    /\ input_parse_errors = 0
    /\ lines_read = 0
    /\ lines_written = 0
    /\ consumed = 0
    /\ writer = "unopened"
    /\ input_file = <<>>
    /\ drained = {}
    /\ written = <<>>
    /\ input_entry = <<>>
    /\ comment_index = 0
    /\ entry_lines = 0

FormatterIdle ==
    /\ arg = <<>>
    /\ entry = <<>>
    /\ once = <<>>
    /\ template = <<>>
    /\ rendered = [err |-> "", val |-> <<>>]

FormatInit ==
    /\ pc = "format"
    /\ raised = ""
    /\ arg \in FormatEntries
    /\ entry = arg
    /\ once = <<>>
    /\ template = <<>>
    /\ rendered = [err |-> "", val |-> <<>>]
    /\ PipelineIdle

\* format_fields(entry) returns: the first call, or a second call on the
\* mapping the first one left.
FormatFieldsReturns ==
    /\ pc \in {"format", "formatted"}
    /\ \E r \in {format_fields(entry, FIELD_FORMATTERS)} :
           /\ r.err = ""
           /\ entry' = r.entry
           /\ once' = IF pc = "format" THEN r.entry ELSE once
    /\ pc' = IF pc = "format" THEN "formatted" ELSE "formatted_twice"
    /\ UNCHANGED <<raised, arg, template, rendered, pipeline_vars>>

\* format_fields(entry) raises.
FormatFieldsRaises ==
    /\ pc \in {"format", "formatted"}
    /\ \E r \in {format_fields(entry, FIELD_FORMATTERS)} :
           /\ r.err # ""
           /\ entry' = r.entry
           /\ raised' = r.err
    /\ pc' = IF pc = "format" THEN "raised_first" ELSE "raised_second"
    /\ UNCHANGED <<once, arg, template, rendered, pipeline_vars>>

\* format_entry(entry, t) for one of the three templates.
FormatEntry ==
    /\ pc = "format"
    /\ \E t \in Templates :
         \E r \in {format_entry(DictV(entry), t)} :
             /\ template' = t
             /\ rendered' = [err |-> r.err, val |-> r.val]
             /\ entry' = r.arg
    /\ pc' = "rendered"
    /\ UNCHANGED <<raised, arg, once, pipeline_vars>>

FormatNext == FormatFieldsReturns \/ FormatFieldsRaises \/ FormatEntry

SpecFormat == FormatInit /\ [][FormatNext]_vars

----------------------------------------------------------------------------
(* prepare_fine_tuning_entries and write_entry *)

Init ==
    /\ pc = "open_writer"
    /\ raised = ""
    /\ sources \in SourceFilters
    /\ n_inputs \in 1..MaxSources
    /\ i = 0
    /\ line_number = 0
    /\ input_parse_errors = 0
    /\ lines_read = 0
    /\ lines_written = 0
    /\ consumed = 0
    /\ writer = "unopened"
    /\ input_file = [k \in 0..(n_inputs - 1) |-> "unopened"]
    /\ drained = {}
    /\ written = <<>>
    /\ input_entry = <<>>
    /\ comment_index = 0
    /\ entry_lines = 0
    /\ FormatterIdle

\* with jsonlines.open(output_path, "w", compact=True) as writer
OpenWriter ==
    /\ pc = "open_writer"
    /\ writer' = "open"
    /\ pc' = "next_input"
    /\ UNCHANGED <<raised, sources, n_inputs, i, line_number,
                   input_parse_errors, lines_read, lines_written, consumed,
                   input_file, drained, written, input_entry, comment_index,
                   entry_lines, formatter_vars>>

\* The output file cannot be opened: the error leaves the function.
OpenWriterFails ==
    /\ pc = "open_writer"
    /\ raised' = "OSError"
    /\ pc' = "raised"
    /\ UNCHANGED <<pipeline_vars, formatter_vars>>

\* for i, input_path in enumerate(input_paths): input_parse_errors = 0;
\* with open(input_path) as input_file; the first itertools.count(1).
OpenInput ==
    /\ pc = "next_input"
    /\ i < n_inputs
    /\ input_file' = [input_file EXCEPT ![i] = "open"]
    /\ input_parse_errors' = 0
    /\ line_number' = 1
    /\ pc' = "read"
    /\ UNCHANGED <<raised, sources, n_inputs, i, lines_read, lines_written,
                   drained, consumed, writer, written, input_entry,
                   comment_index, entry_lines, formatter_vars>>

\* An input file cannot be opened: the error leaves the writer's with block.
OpenInputFails ==
    /\ pc = "next_input"
    /\ i < n_inputs
    /\ raised' = "OSError"
    /\ pc' = "unwind_writer"
    /\ UNCHANGED <<pipeline_vars, formatter_vars>>

\* reader.read() raises EOFError: break.
ReadEOF ==
    /\ pc = "read"
    /\ drained' = drained \cup {i}
    /\ pc' = "close_input"
    /\ UNCHANGED <<raised, sources, n_inputs, i, line_number,
                   input_parse_errors, lines_read, lines_written, consumed,
                   writer, input_file, written, input_entry, comment_index,
                   entry_lines, formatter_vars>>

\* InvalidLineError handled like EOFError: the rest of the input is dropped.
ReadInvalidLineStops ==
    /\ pc = "read"
    /\ consumed < MaxReads
    /\ consumed' = consumed + 1
    /\ input_parse_errors' = input_parse_errors + 1
    /\ pc' = "close_input"
    /\ UNCHANGED <<raised, sources, n_inputs, i, line_number, lines_read,
                   lines_written, writer, input_file, drained, written,
                   input_entry, comment_index, entry_lines, formatter_vars>>

\* reader.read() raises InvalidLineError.
ReadInvalidLine ==
    /\ pc = "read"
    /\ consumed < MaxReads
    /\ consumed' = consumed + 1
    /\ input_parse_errors' = input_parse_errors + 1
    /\ line_number' = line_number + 1
    /\ UNCHANGED <<pc, raised, sources, n_inputs, i, lines_read,
                   lines_written, writer, input_file, drained, written,
                   input_entry, comment_index, entry_lines, formatter_vars>>

\* The filter with an entry that has no "source" let through.
not_in_sources_missing_kept(filter, an_entry) ==
    /\ filter.given
    /\ "source" \in Keys(an_entry)
    /\ Get(an_entry, "source") \notin filter.names

\* sources is not None and input_entry.get("source") not in sources
not_in_sources(filter, an_entry) ==
    filter.given /\ get(an_entry, "source", NullV) \notin filter.names

\* reader.read() returns an entry and the filter says continue.
ReadFiltered ==
    /\ pc = "read"
    /\ consumed < MaxReads
    /\ \E rec \in PipelineRecords :
         /\ not_in_sources(sources, rec)
         /\ input_entry' = rec
    /\ consumed' = consumed + 1
    /\ lines_read' = lines_read + 1
    /\ line_number' = line_number + 1
    /\ UNCHANGED <<pc, raised, sources, n_inputs, i, input_parse_errors,
                   lines_written, writer, input_file, drained, written,
                   comment_index, entry_lines, formatter_vars>>

\* reader.read() returns an entry that is kept: write_entry is called.
ReadEntry ==
    /\ pc = "read"
    /\ consumed < MaxReads
    /\ \E rec \in PipelineRecords :
         /\ ~not_in_sources(sources, rec)
         /\ input_entry' = rec
    /\ consumed' = consumed + 1
    /\ lines_read' = lines_read + 1
    /\ comment_index' = 0
    /\ entry_lines' = 0
    /\ pc' = "write_entry"
    /\ UNCHANGED <<raised, sources, n_inputs, i, line_number,
                   input_parse_errors, lines_written, writer, input_file,
                   drained, written, formatter_vars>>

\* The loop of write_entry has a comment left to look at.
HasComment ==
    /\ pc = "write_entry"
    /\ Iterable(comments_of(input_entry))
    /\ comment_index < Len(comments_of(input_entry).v)

\* The written line put in front of the lines already in the file.
CommentWrittenFirst ==
    /\ HasComment
    /\ \E out \in {outcome(input_entry, comment_index)} :
         /\ out.err = ""
         /\ written' = << [origin |-> <<i, line_number, comment_index>>,
                           prompt |-> out.prompt,
                           completion |-> out.completion] >> \o written
    /\ entry_lines' = entry_lines + 1
    /\ comment_index' = comment_index + 1
    /\ UNCHANGED <<pc, raised, sources, n_inputs, i, line_number,
                   input_parse_errors, lines_read, lines_written, consumed,
                   writer, input_file, drained, input_entry, formatter_vars>>

\* The else branch: writer.write(output_entry); lines_written += 1.  Each
\* written line is kept with the place it came from (input, line, comment).
CommentWritten ==
    /\ HasComment
    /\ \E out \in {outcome(input_entry, comment_index)} :
         /\ out.err = ""
         /\ written' = Append(written,
                              [origin |-> <<i, line_number, comment_index>>,
                               prompt |-> out.prompt,
                               completion |-> out.completion])
    /\ entry_lines' = entry_lines + 1
    /\ comment_index' = comment_index + 1
    /\ UNCHANGED <<pc, raised, sources, n_inputs, i, line_number,
                   input_parse_errors, lines_read, lines_written, consumed,
                   writer, input_file, drained, input_entry, formatter_vars>>

\* The except branch: the comment is skipped.
CommentSkipped ==
    /\ HasComment
    /\ outcome(input_entry, comment_index).err \in Caught
    /\ comment_index' = comment_index + 1
    /\ UNCHANGED <<pc, raised, sources, n_inputs, i, line_number,
                   input_parse_errors, lines_read, lines_written, consumed,
                   writer, input_file, drained, written, input_entry,
                   entry_lines, formatter_vars>>

\* An exception the except clause does not name, or enumerate() of a value
\* that cannot be iterated: it leaves write_entry and the loops around it.
WriteEntryRaises ==
    /\ pc = "write_entry"
    /\ \/ /\ ~Iterable(comments_of(input_entry))
          /\ raised' = "TypeError"
       \/ /\ HasComment
          /\ \E out \in {outcome(input_entry, comment_index)} :
               /\ out.err \notin Caught \cup {""}
               /\ raised' = out.err
    /\ pc' = "unwind_input"
    /\ UNCHANGED <<pipeline_vars, formatter_vars>>

\* return lines_written, and in the caller lines_written += ...
WriteEntryReturns ==
    /\ pc = "write_entry"
    /\ Iterable(comments_of(input_entry))
    /\ comment_index = Len(comments_of(input_entry).v)
    /\ lines_written' = lines_written + entry_lines
    /\ line_number' = line_number + 1
    /\ pc' = "read"
    /\ UNCHANGED <<raised, sources, n_inputs, i, input_parse_errors,
                   lines_read, consumed, writer, input_file, drained,
                   written, input_entry, comment_index, entry_lines,
                   formatter_vars>>

\* The end of "with open(input_path)" after the break, then the next path.
CloseInput ==
    /\ pc = "close_input"
    /\ input_file' = [input_file EXCEPT ![i] = "closed"]
    /\ i' = i + 1
    /\ pc' = "next_input"
    /\ UNCHANGED <<raised, sources, n_inputs, line_number,
                   input_parse_errors, lines_read, lines_written, drained,
                   consumed, writer, written, input_entry, comment_index,
                   entry_lines, formatter_vars>>

\* The end of the writer's with block after the last input path.
CloseWriter ==
    /\ pc = "next_input"
    /\ i = n_inputs
    /\ writer' = "closed"
    /\ pc' = "done"
    /\ UNCHANGED <<raised, sources, n_inputs, i, line_number,
                   input_parse_errors, lines_read, lines_written, consumed,
                   input_file, drained, written, input_entry, comment_index,
                   entry_lines, formatter_vars>>

\* The input opened without a with block: an exception leaves it open.
UnwindInputLeaks ==
    /\ pc = "unwind_input"
    /\ pc' = "unwind_writer"
    /\ UNCHANGED <<raised, pipeline_vars, formatter_vars>>

\* An exception leaves "with open(input_path)": the file is closed.
UnwindInput ==
    /\ pc = "unwind_input"
    /\ input_file' = [input_file EXCEPT ![i] = "closed"]
    /\ pc' = "unwind_writer"
    /\ UNCHANGED <<raised, sources, n_inputs, i, line_number,
                   input_parse_errors, lines_read, lines_written, drained,
                   consumed, writer, written, input_entry, comment_index,
                   entry_lines, formatter_vars>>

\* The exception leaves the writer's with block: the writer is closed.
UnwindWriter ==
    /\ pc = "unwind_writer"
    /\ writer' = "closed"
    /\ pc' = "raised"
    /\ UNCHANGED <<raised, sources, n_inputs, i, line_number,
                   input_parse_errors, lines_read, lines_written, consumed,
                   input_file, drained, written, input_entry, comment_index,
                   entry_lines, formatter_vars>>

Next ==
    \/ OpenWriter
    \/ OpenWriterFails
    \/ OpenInput
    \/ OpenInputFails
    \/ ReadEOF
    \/ ReadInvalidLine
    \/ ReadFiltered
    \/ ReadEntry
    \/ CommentWritten
    \/ CommentSkipped
    \/ WriteEntryRaises
    \/ WriteEntryReturns
    \/ CloseInput
    \/ CloseWriter
    \/ UnwindInput
    \/ UnwindWriter

Spec == Init /\ [][Next]_vars

\* The program is sequential and nothing stops it between two steps.
FairSpec == Spec /\ WF_vars(Next)

----------------------------------------------------------------------------
(* write_entry on its own: the state in which prepare_fine_tuning_entries  *)
(* calls it for the first line of its only input, with no --sources.       *)

ExpandInit ==
    /\ pc = "write_entry"
    /\ raised = ""
    /\ sources = NoSources
    /\ n_inputs = 1
    /\ i = 0
    /\ line_number = 1
    /\ input_parse_errors = 0
    /\ lines_read = 1
    /\ lines_written = 0
    /\ consumed = 1
    /\ writer = "open"
    /\ input_file = [k \in {0} |-> "open"]
    /\ drained = {}
    /\ written = <<>>
    /\ input_entry \in ExpandRecords
    /\ comment_index = 0
    /\ entry_lines = 0
    /\ FormatterIdle

ExpandNext ==
    \/ CommentWritten
    \/ CommentSkipped
    \/ WriteEntryRaises
    \/ WriteEntryReturns

SpecExpand == ExpandInit /\ [][ExpandNext]_vars

----------------------------------------------------------------------------
(* Properties of the formatter (SpecFormat) *)

\* sub occurs in s
Contains(s, sub) ==
    \E p \in 1..(Len(s) - Len(sub) + 1) : SubSeq(s, p, p + Len(sub) - 1) = sub

\* The template without the replacement fields that name no key of keys.
Present(t, keys) ==
    SelectSeq(t, LAMBDA tok : tok.kind = "lit" \/ tok.v \in keys)

\* The text that ends a completion.
EndMarker == <<"\n", "\n", "%", "E", "N", "D", "%", "\n", "\n">>

\* The comment template with nothing to put in any of its fields.
EmptyComment ==
    << "C", "o", "m", "m", "e", "n", "t", " ", "b", "y", " ",
       "\n", "V", "o", "t", "e", "s", ":", " ",
       "\n", "K", "a", "r", "m", "a", ":", " ", "\n", "\n" >>

C8_DefaultSubstitution ==
    pc = "rendered" =>
        /\ rendered.err # "KeyError"
        /\ rendered.err = format_fields(arg, FIELD_FORMATTERS).err
        /\ rendered.err = "" =>
             rendered.val =
                 format_entry(DictV(arg), Present(template, Keys(arg))).val
        /\ ( /\ rendered.err = ""
             /\ template = COMPLETION_TEMPLATE
             /\ "comments" \in Keys(arg)
             /\ Len(Get(arg, "comments").v) = 1 ) =>
             rendered.val =
                 <<" ">>
                 \o format_entry(Get(arg, "comments").v[1],
                                 Present(COMMENT_TEMPLATE,
                                         Keys(Get(arg, "comments").v[1].v))).val
                 \o EndMarker

\* C8: reached when the prompt template has been rendered from a mapping
\* that has a text and comments but no title and no score.
C8_Witness ==
    /\ pc = "rendered"
    /\ rendered.err = ""
    /\ template = PROMPT_TEMPLATE
    /\ Keys(arg) = {"text", "comments"}
    /\ Len(Get(arg, "comments").v) = 1

----------------------------------------------------------------------------
(* Properties of write_entry (SpecExpand) *)

\* The comments write_entry loops over.
Comments == comments_of(input_entry).v

\* The comments (by index) whose derived record formats without an error.
Formatting == { j \in 0..(Len(Comments) - 1) : outcome(input_entry, j).err = "" }

\* write_entry is over: it has returned, or an exception has left it.
WriteEntryOver == pc \in {"read", "unwind_input"}

\* C1 as stated: whatever its comments are, write_entry returns, and every
\* comment that formats on its own has its line in the output.
C1_ExpansionNeverAborts ==
    Iterable(comments_of(input_entry)) =>
        /\ pc # "unwind_input"
        /\ pc = "read" =>
             \A j \in Formatting :
                 \E n \in 1..Len(written) : written[n].origin[3] = j

\* C2 as stated: for a record with k comments of which m do not format,
\* write_entry writes k - m lines and returns k - m.
C2_FanOutCardinality ==
    (Iterable(comments_of(input_entry)) /\ WriteEntryOver) =>
        /\ pc = "read"
        /\ entry_lines = Cardinality(Formatting)
        /\ lines_written = Cardinality(Formatting)
        /\ Len(written) = Cardinality(Formatting)

\* The input entry without its comments.
ArticleAlone == SelectSeq(input_entry, LAMBDA item : item.k # "comments")

\* What a comment renders to by itself: a mapping through the comment
\* template, a str as it is.
RenderedAlone(comment) ==
    IF comment.tag = "dict" THEN format_entry(comment, COMMENT_TEMPLATE).val
    ELSE comment.v

\* C7: every line written for a record has the completion of its own comment
\* rendered by itself, between the leading blank and the end marker, and the
\* prompt of the record without any comment; so the lines of one record share
\* their prompt and no line depends on a comment rendered before it.
C7_PerCommentIndependence ==
    \A n \in 1..Len(written) :
        /\ written[n].completion =
               <<" ">> \o RenderedAlone(Comments[written[n].origin[3] + 1])
                       \o EndMarker
        /\ written[n].prompt =
               format_entry(DictV(ArticleAlone), PROMPT_TEMPLATE).val

\* C7: reached when write_entry has returned after writing the lines of two
\* different comments that are mappings.
C7_Witness ==
    /\ pc = "read"
    /\ Len(written) = 2
    /\ Comments[1].tag = "dict"
    /\ Comments[2].tag = "dict"
    /\ written[1].completion # written[2].completion
    /\ written[1].prompt = written[2].prompt

----------------------------------------------------------------------------
(* Properties of prepare_fine_tuning_entries (Spec, FairSpec) *)

\* The entry has a source and the filter names it, or there is no filter.
InFilter(filter, an_entry) ==
    \/ ~filter.given
    \/ /\ "source" \in Keys(an_entry)
       /\ Get(an_entry, "source") \in filter.names

\* C3: an entry that has been read goes to write_entry exactly when there is
\* no filter or its source is in the filter; an entry that does not is
\* dropped with nothing written, and the loop reads on.  Nothing is ever
\* written for an entry outside the filter.
C3_SourceFilter ==
    [][ /\ lines_read' = lines_read + 1 =>
              /\ pc' = "write_entry" <=> InFilter(sources, input_entry')
              /\ pc' # "write_entry" =>
                    /\ pc' = "read"
                    /\ written' = written
                    /\ lines_written' = lines_written
        /\ written' # written => InFilter(sources, input_entry) ]_vars

\* C3: reached when, under a filter, a line has been written for one entry
\* and the entry read after it, which has no source, has been dropped.
C3_Witness ==
    /\ sources.given
    /\ pc = "read"
    /\ lines_read = 2
    /\ Len(written) > 0
    /\ lines_written = Len(written)
    /\ "source" \notin Keys(input_entry)
    /\ "comments" \in Keys(input_entry)

\* C4: a malformed line adds one to the parse errors of the input and to the
\* line number, and nothing else: it is not counted as read, nothing is
\* written, no file is closed, no exception propagates and the loop is still
\* reading the same input.
C4_ParseErrorContained ==
    [][ input_parse_errors' = input_parse_errors + 1 =>
            /\ pc = "read"
            /\ pc' = "read"
            /\ raised' = ""
            /\ i' = i
            /\ line_number' = line_number + 1
            /\ lines_read' = lines_read
            /\ lines_written' = lines_written
            /\ written' = written
            /\ input_file' = input_file
            /\ writer' = writer ]_vars

\* C4: reached when the run has ended normally, the only entry it read was
\* on line 2 of the second input, after a malformed line 1, and its comments
\* have been written.
C4_Witness ==
    /\ pc = "done"
    /\ n_inputs = 2
    /\ input_parse_errors = 1
    /\ lines_read = 1
    /\ Len(written) > 0
    /\ written[1].origin[1] = 1
    /\ written[1].origin[2] = 2

\* <<input, line>> pairs and <<input, line, comment>> triples in order.
Before(a, b) ==
    \/ a[1] < b[1]
    \/ a[1] = b[1] /\ a[2] < b[2]
    \/ a[1] = b[1] /\ a[2] = b[2] /\ Len(a) = 3 /\ a[3] < b[3]

\* C5: the lines of the output are in the order of the places they come from
\* (input, line, comment); and when the next line is about to be read every
\* line written comes from an earlier line, while within write_entry every
\* line written comes from an earlier place than the comment at hand.
C5_ArrivalOrder ==
    /\ \A a, b \in 1..Len(written) :
         a < b => Before(written[a].origin, written[b].origin)
    /\ pc = "read" =>
         \A a \in 1..Len(written) :
             Before(<<written[a].origin[1], written[a].origin[2]>>,
                    <<i, line_number>>)
    /\ pc = "write_entry" =>
         \A a \in 1..Len(written) :
             Before(written[a].origin, <<i, line_number, comment_index>>)

\* C5: reached when the output holds two lines of one entry followed by a
\* line of an entry of the next input.
C5_Witness ==
    /\ Len(written) = 3
    /\ written[1].origin[1] = 0
    /\ written[2].origin[1] = 0
    /\ written[1].origin[2] = written[2].origin[2]
    /\ written[1].origin[3] < written[2].origin[3]
    /\ written[3].origin[1] = 1

Open == { k \in DOMAIN input_file : input_file[k] = "open" }

\* C10: at most one input is open; an input is opened only when the one
\* before it has reached EOF and is closed; while any input is open or has
\* been opened the writer has been opened, while one is open the writer is
\* open, and a closed writer leaves no input open; the writer is opened at
\* most once and never reopened; and an input that is open is closed later,
\* whichever way the run ends.
C10_SourceLifecycle ==
    /\ [](Cardinality(Open) <= 1)
    /\ [](\A k \in DOMAIN input_file :
            (k > 0 /\ input_file[k] # "unopened") =>
                (input_file[k - 1] = "closed" /\ (k - 1) \in drained))
    /\ []((\E k \in DOMAIN input_file : input_file[k] # "unopened") =>
              writer # "unopened")
    /\ [](Open # {} => writer = "open")
    /\ [](writer = "closed" => Open = {})
    /\ [](pc = "done" =>
              \A k \in DOMAIN input_file : input_file[k] = "closed")
    /\ [][ /\ writer = "closed" => writer' = "closed"
           /\ writer = "open" => writer' # "unopened"
           /\ \A k \in DOMAIN input_file :
                input_file[k] = "closed" => input_file'[k] = "closed" ]_vars
    /\ \A k \in 0..(MaxSources - 1) :
         [](k \in Open => <>(k \in DOMAIN input_file /\ input_file[k] = "closed"))

\* C10: reached when an exception has ended the run in the second input,
\* after malformed lines, with both inputs and the writer closed.
C10_Witness ==
    /\ pc = "raised"
    /\ raised = "TypeError"
    /\ n_inputs = 2
    /\ i = 1
    /\ input_parse_errors > 0
    /\ input_file[0] = "closed"
    /\ input_file[1] = "closed"
    /\ writer = "closed"

=============================================================================
